---------------------------- MODULE Spec2Model ----------------------------
(***************************************************************************)
(* State-machine model of the telemetry engine of src/main.py              *)
(* (class MainWindow and the SerialReader thread).                         *)
(*                                                                         *)
(* Conventions of the model                                                *)
(*  - Time is an integer count of 1/Res seconds; time.time() is `now`.     *)
(*  - A coordinate is an integer number of metres north (lat) / east (lon) *)
(*    of GEOFENCE_CENTER; haversine_m is modelled by the squared flat      *)
(*    distance, and every comparison of a distance is made on squares.     *)
(*  - A text line is a sequence of one-character strings, so that the      *)
(*    parser's startswith / in / split / float are computed, not assumed.  *)
(*  - Python's None is the empty tuple <<>>; a present value v is <<v>>.   *)
(***************************************************************************)
EXTENDS Integers, Sequences, FiniteSets, TLC

(***************************************************************************)
(* Program constants (src/main.py, "Configurações").                       *)
(***************************************************************************)
STOP_ALERT_SECONDS == 30
GEOFENCE_RADIUS_M == 2000
ROUTE_MAX_POINTS == 500
SPEED_HISTORY_MAX == 600
MAP_REFRESH_MIN_S == 1
CSV_FLUSH_INTERVAL_S == 5
CSV_BUFFER_MAX == 100
RECONNECT_MIN_S == 5
JOIN_TIMEOUT_S == 1
PENDING_MAX == 1000
SIM_RADIUS_M == 40
SIM_SPEED_TARGET_KMH == 20
GEOFENCE_CENTER == <<0, 0>>
START_POS == <<0, 0>>

(***************************************************************************)
(* Bounds of the model.                                                    *)
(***************************************************************************)
Res == 2          \* clock units per second: one unit is UPDATE_MS = 500 ms
Epoch == 1000     \* value of time.time() when the window is constructed
MaxTicks == 2     \* ticks explored
LongDt == 11      \* a late tick: the timer fired LongDt units after the last
MaxQueue == 2     \* lines the reader may have queued and not yet consumed
ReconnTicks == 3
MotionLen == 3
MaxConn == 2      \* device handles opened in one run
PendFill == 998
MaxPending == 2   \* map updates queued while the page is loading
MaxUser == 4      \* presses of the toggle buttons explored
MaxLat == 5       \* latitudes of the parser's input lines: -MaxLat..MaxLat
MaxLon == 3       \* longitudes of the parser's input lines: -MaxLon..MaxLon
MaxSpd == 9       \* speeds of the parser's input lines: 0..MaxSpd
RunLen == 602     \* lines of a long run, one consumed per tick
WalkStep == 2     \* metres between two readings of a walking device
FillLen == 101    \* lines of a run that fills the CSV buffer
FillFrom == 98    \* route length from which the save button is pressed there
FillPresses == 3  \* presses of the save button in such a run

None == <<>>
Some(v) == <<v>>

(***************************************************************************)
(* Text: Python str operations on sequences of characters.                 *)
(***************************************************************************)
StartsWith(s, p) ==
    /\ Len(s) >= Len(p)
    /\ SubSeq(s, 1, Len(p)) = p

\* Python: p in s
Contains(s, p) ==
    \E i \in 1..(Len(s) - Len(p) + 1) : SubSeq(s, i, i + Len(p) - 1) = p

\* Python: s.split(c) for a one-character separator c
RECURSIVE SplitAt(_, _, _)
SplitAt(s, c, cur) ==
    IF s = <<>> THEN <<cur>>
    ELSE IF Head(s) = c THEN <<cur>> \o SplitAt(Tail(s), c, <<>>)
    ELSE SplitAt(Tail(s), c, Append(cur, Head(s)))

Split(s, c) == SplitAt(s, c, <<>>)

Digits == <<"0", "1", "2", "3", "4", "5", "6", "7", "8", "9">>

IsDigit(c) == \E i \in 1..10 : Digits[i] = c

DigitVal(c) == (CHOOSE i \in 1..10 : Digits[i] = c) - 1

RECURSIVE DigitsVal(_, _)
DigitsVal(s, acc) ==
    IF s = <<>> THEN acc ELSE DigitsVal(Tail(s), 10 * acc + DigitVal(Head(s)))

\* Python: float(s) succeeds. The model's numerals are optionally signed
\* decimal integers; every other token makes float raise ValueError.
FloatOk(s) ==
    LET body == IF s # <<>> /\ Head(s) \in {"-", "+"} THEN Tail(s) ELSE s
    IN  /\ body # <<>>
        /\ \A i \in 1..Len(body) : IsDigit(body[i])

\* Python: float(s), for FloatOk(s)
Float(s) ==
    IF Head(s) = "-" THEN 0 - DigitsVal(Tail(s), 0)
    ELSE IF Head(s) = "+" THEN DigitsVal(Tail(s), 0)
    ELSE DigitsVal(s, 0)

\* Python: f"{n}" for an integer n (the formatting side of the protocol)
RECURSIVE NatStr(_)
NatStr(n) ==
    IF n < 10 THEN <<Digits[n + 1]>>
    ELSE Append(NatStr(n \div 10), Digits[(n % 10) + 1])

Str(n) == IF n < 0 THEN <<"-">> \o NatStr(0 - n) ELSE NatStr(n)

LAT_ == <<"L", "A", "T", ":">>
LON_ == <<"L", "O", "N", ":">>
SPD_ == <<"S", "P", "D", ":">>
COMMA == <<",">>

\* The wire format of a reading with a speed, and of one without.
Line3(a, b, c) == LAT_ \o Str(a) \o COMMA \o LON_ \o Str(b) \o COMMA \o SPD_ \o Str(c)
Line2(a, b) == LAT_ \o Str(a) \o COMMA \o LON_ \o Str(b)

(***************************************************************************)
(* MainWindow.tick, lines 663-676: the frame parser.  The three float()    *)
(* conversions run in order inside one try block, so an exception leaves   *)
(* the values converted before it assigned.                                *)
(***************************************************************************)
\* parts[k].split(":")[1] converts: the part exists, has a second field,
\* and the field is a numeral.
FieldOk(parts, k) ==
    /\ Len(parts) >= k
    /\ Len(Split(parts[k], ":")) >= 2
    /\ FloatOk(Split(parts[k], ":")[2])

FieldVal(parts, k) == Float(Split(parts[k], ":")[2])

ParseMutSwap(linha) ==
    IF linha # <<>> /\ StartsWith(linha, LAT_) /\ Contains(linha, LON_)
    THEN LET parts == Split(linha, ",")
         IN  IF ~FieldOk(parts, 1) THEN [lat |-> None, lon |-> None, spd |-> None]
             ELSE IF ~FieldOk(parts, 2)
                  THEN [lat |-> Some(FieldVal(parts, 1)), lon |-> None, spd |-> None]
             ELSE IF Len(parts) > 2 /\ Contains(parts[3], SPD_) /\ FieldOk(parts, 3)
                  THEN [lat |-> Some(FieldVal(parts, 2)),
                        lon |-> Some(FieldVal(parts, 1)),
                        spd |-> Some(FieldVal(parts, 3))]
             ELSE [lat |-> Some(FieldVal(parts, 2)),
                   lon |-> Some(FieldVal(parts, 1)), spd |-> None]
    ELSE [lat |-> None, lon |-> None, spd |-> None]

\* a parser that takes a longitude that is not a number to be 0
ParseMutLonDefault(linha) ==
    IF linha # <<>> /\ StartsWith(linha, LAT_) /\ Contains(linha, LON_)
    THEN LET parts == Split(linha, ",")
         IN  IF ~FieldOk(parts, 1) THEN [lat |-> None, lon |-> None, spd |-> None]
             ELSE IF ~FieldOk(parts, 2)
                  THEN [lat |-> Some(FieldVal(parts, 1)), lon |-> Some(0), spd |-> None]
             ELSE IF Len(parts) > 2 /\ Contains(parts[3], SPD_) /\ FieldOk(parts, 3)
                  THEN [lat |-> Some(FieldVal(parts, 1)),
                        lon |-> Some(FieldVal(parts, 2)),
                        spd |-> Some(FieldVal(parts, 3))]
             ELSE [lat |-> Some(FieldVal(parts, 1)),
                   lon |-> Some(FieldVal(parts, 2)), spd |-> None]
    ELSE [lat |-> None, lon |-> None, spd |-> None]

ParseLine(linha) ==
    IF linha # <<>> /\ StartsWith(linha, LAT_) /\ Contains(linha, LON_)
    THEN LET parts == Split(linha, ",")
         IN  IF ~FieldOk(parts, 1) THEN [lat |-> None, lon |-> None, spd |-> None]
             ELSE IF ~FieldOk(parts, 2)
                  THEN [lat |-> Some(FieldVal(parts, 1)), lon |-> None, spd |-> None]
             ELSE IF Len(parts) > 2 /\ Contains(parts[3], SPD_) /\ FieldOk(parts, 3)
                  THEN [lat |-> Some(FieldVal(parts, 1)),
                        lon |-> Some(FieldVal(parts, 2)),
                        spd |-> Some(FieldVal(parts, 3))]
             ELSE [lat |-> Some(FieldVal(parts, 1)),
                   lon |-> Some(FieldVal(parts, 2)), spd |-> None]
    ELSE [lat |-> None, lon |-> None, spd |-> None]


(***************************************************************************)
(* Geometry and the alert rules.                                           *)
(***************************************************************************)
MOVE_THRESHOLD_HALF_M == 3      \* 1.5 m, in half metres (line 689)
MAP_MIN_MOVE_M == 3

\* haversine_m(lat1, lon1, lat2, lon2) squared, on the flat metre grid
haversine_m2(lat1, lon1, lat2, lon2) ==
    (lat2 - lat1) * (lat2 - lat1) + (lon2 - lon1) * (lon2 - lon1)

RECURSIVE IsqrtIn(_, _, _)
IsqrtIn(n, lo, hi) ==
    IF lo >= hi THEN lo
    ELSE LET mid == (lo + hi + 1) \div 2
         IN  IF mid * mid <= n THEN IsqrtIn(n, mid, hi) ELSE IsqrtIn(n, lo, mid - 1)

\* whole metres of a squared distance
Isqrt(n) == IsqrtIn(n, 0, IF n > 46340 THEN 46340 ELSE n)

dentro_da_geofence(lat, lon) ==
    haversine_m2(lat, lon, GEOFENCE_CENTER[1], GEOFENCE_CENTER[2])
        <= GEOFENCE_RADIUS_M * GEOFENCE_RADIUS_M

\* est_kmh = (dist_m / dt) * 3.6 with dt = max(1e-6, now - t0), in whole km/h
EstKmh(d2, dt) ==
    IF dt <= 0 THEN Isqrt(d2) * 3600000
    ELSE (Isqrt(d2) * 36 * Res) \div (10 * dt)

\* lines 719-727: the alert list of a tick
Alerts(t, lmt, lp) ==
    (IF t - lmt > STOP_ALERT_SECONDS * Res
        THEN << <<"Parado", (t - lmt) \div Res>> >> ELSE <<>>)
    \o (IF lp # None /\ ~dentro_da_geofence(lp[1], lp[2])
        THEN << <<"Fora">> >> ELSE <<>>)

\* lines 730-736: what the alert label shows for an alert list
AlertLabel(alerts) ==
    IF alerts # <<>>
    THEN [alerts |-> alerts,
          color |-> IF \E i \in 1..Len(alerts) : alerts[i][1] = "Fora"
                    THEN "#ff6b6b" ELSE "#ffb74d"]
    ELSE [alerts |-> <<>>, color |-> "#8ee3a9"]

\* a bounded queue that refuses the new element when full
AppendMaxMutDropNewest(q, x, cap) ==
    IF Len(q) >= cap THEN q ELSE Append(q, x)

\* deque(maxlen = cap).append(x)
AppendMax(q, x, cap) ==
    IF Len(q) >= cap THEN Append(Tail(q), x) ELSE Append(q, x)

(***************************************************************************)
(* The simulator, gerar_leitura_simulada.  sim_angle is kept in tenths of  *)
(* a radian modulo one turn; cos and sin are sampled at the start of the   *)
(* quadrant the angle lies in.                                             *)
(***************************************************************************)
SimTurn == 64          \* one turn, tenths of a radian
SimQuarter == 16       \* a quarter turn, tenths of a radian
SimRateTenths == 8     \* 0.8 rad/s, tenths of a radian per second

SimAdvance(angle, dt) ==
    (angle + (SimRateTenths * (IF dt < 0 THEN 0 ELSE dt)) \div Res) % SimTurn

SimCos(angle) == LET q == angle \div SimQuarter
                 IN  IF q = 0 THEN 1 ELSE IF q = 2 THEN 0 - 1 ELSE 0

SimSin(angle) == LET q == angle \div SimQuarter
                 IN  IF q = 1 THEN 1 ELSE IF q = 3 THEN 0 - 1 ELSE 0

\* the line returned for the advanced angle: f"LAT:{lat},LON:{lon},SPD:{spd}"
SimLine(angle) ==
    Line3(START_POS[1] + SimSin(angle) * SIM_RADIUS_M,
          START_POS[2] + SimCos(angle) * SIM_RADIUS_M,
          (SIM_SPEED_TARGET_KMH * (6 + 4 * SimSin(angle))) \div 10)

(***************************************************************************)
(* What the serial device may send.                                        *)
(***************************************************************************)
DevLon == 1
DevSpd == 7
BAD == <<"x">>

GoodLines3 == {Line3(a, DevLon, DevSpd) : a \in {0, 4, 2001}}
GoodLines2 == {Line2(a, DevLon) : a \in {1}}
BadLines ==
    { LON_ \o Str(DevLon) \o COMMA \o LAT_ \o Str(2),             \* no LAT: prefix
      LAT_ \o Str(2) \o COMMA \o SPD_ \o Str(DevSpd),             \* no LON:
      LAT_ \o Str(4) \o COMMA \o LON_ \o BAD,                     \* longitude not a number
      LAT_ \o Str(4) \o COMMA \o LON_ \o Str(DevLon) \o COMMA \o SPD_ \o BAD }  \* speed not a number

DeviceLines == GoodLines3 \cup GoodLines2 \cup BadLines

\* a line whose latitude is not a number
BadLatLine == LAT_ \o BAD \o COMMA \o LON_ \o Str(DevLon)
MotionLines == DeviceLines \cup {BadLatLine}

\* the k-th line of a device moving north by WalkStep metres per reading
WalkLine(k) == Line3(WalkStep * k, DevLon, DevSpd)

\* what the reader has queued in a run of n lines: n times the same
\* reading, or the n readings of a walk
FedQueues(n) ==
    {[i \in 1..n |-> l] : l \in GoodLines3 \cup GoodLines2}
    \cup {[i \in 1..n |-> WalkLine(i)]}

\* the queues of at most n lines of the device
MixedQueues(n) == UNION {[1..k -> MotionLines] : k \in 0..n}

\* every line a tick can meet, and its parse
AllLines ==
    MotionLines \cup {SimLine(a) : a \in 0..(SimTurn - 1)} \cup {<<>>}
    \cup {WalkLine(k) : k \in 1..RunLen}
ParseOf == [l \in AllLines |-> ParseLine(l)]


(***************************************************************************)
(* State.                                                                  *)
(***************************************************************************)
VARIABLES
    now,                    \* time.time()
    arduino,                \* self.arduino: None or <<handle>>
    handle_open,            \* the handles whose is_open is True
    nconn,                  \* handles opened so far
    serial_queue,           \* self.serial_queue
    serial_stop,            \* self.serial_stop (threading.Event)
    rpc,                    \* SerialReader: "none" | "loop" | "read" | "put" | "dead"
    rser,                   \* SerialReader.ser
    rlinha,                 \* SerialReader.run's local linha
    dpc,                    \* desconectar: "idle" | "join" | "close" | "drain"
    last_point,             \* None or <<lat, lon, t>>
    last_movement_time,
    route,
    speed_history,
    last_map_update,
    last_map_pos,           \* None or <<lat, lon>>
    follow_map,
    save_route,
    simulating,
    sim_angle,
    sim_last_time,
    csv_buffer,
    csv_last_flush,
    csv_file,               \* the rows of the session's CSV file
    csv_exists,             \* the session's CSV file exists
    last_reconnect_attempt,
    map_ready,
    pending_map_updates,    \* self._pending_map_updates
    page_loading,           \* a webview.load is in progress
    alert_label,            \* what self.alert_label shows
    nticks,                 \* ticks run so far
    nuser,                  \* presses of the toggle buttons so far
    tk,                     \* trace of the last tick
    map_log,                \* the last two map updates emitted
    map_replay,             \* what the last loadFinished(ok) replayed
    csv_appended,           \* records appended to csv_buffer so far
    csv_handed,             \* records passed to salvar_ponto_csv so far
    read_failed,            \* readline raised on the open port of the reader's connection
    dlog                    \* the steps the last desconectar has taken, in order

conn_vars == <<arduino, handle_open, nconn, serial_stop, rpc, rser, rlinha>>
motion_vars == <<last_point, last_movement_time, route, speed_history>>
map_vars == <<last_map_update, last_map_pos, map_ready, pending_map_updates,
              page_loading, map_log, map_replay>>
sim_vars == <<sim_angle, sim_last_time>>
csv_vars == <<csv_buffer, csv_last_flush, csv_file, csv_exists, csv_appended,
              csv_handed>>
tick_vars == <<nticks, tk, alert_label>>

vars == <<now, conn_vars, serial_queue, dpc, motion_vars, map_vars, follow_map,
          save_route, simulating, sim_vars, csv_vars, last_reconnect_attempt,
          tick_vars, read_failed, nuser, dlog>>

NoTick == [line |-> <<>>, rd |-> [lat |-> None, lon |-> None, spd |-> None],
           accepted |-> FALSE, spd |-> None, raised |-> FALSE,
           wr_fail |-> FALSE]

\* MainWindow.__init__: the connection, the queue and the reader thread
InitConn ==
    /\ arduino = None
    /\ handle_open = {}
    /\ nconn = 0
    /\ serial_queue = <<>>
    /\ serial_stop = FALSE
    /\ rpc = "none"
    /\ rser = None
    /\ rlinha = <<>>
    /\ read_failed = FALSE

\* MainWindow.__init__: everything else but follow_map
InitWindowPending(pend) ==
    /\ now = Epoch
    /\ dpc = "idle"
    /\ last_point = None
    /\ last_movement_time = Epoch
    /\ route = <<>>
    /\ speed_history = <<>>
    /\ last_map_update = 0
    /\ last_map_pos = None
    /\ save_route = FALSE
    /\ simulating = FALSE
    /\ sim_angle = 0
    /\ sim_last_time = Epoch
    /\ csv_buffer = <<>>
    /\ csv_last_flush = Epoch
    /\ csv_file = <<>>
    /\ csv_exists = FALSE
    /\ last_reconnect_attempt = 0
    /\ map_ready = FALSE
    /\ pending_map_updates = pend
    /\ page_loading = TRUE
    /\ alert_label = [alerts |-> <<>>, color |-> "#ffd166"]
    /\ nticks = 0
    /\ tk = NoTick
    /\ map_log = <<>>
    /\ map_replay = [sent |-> <<>>, failed |-> FALSE]
    /\ csv_appended = 0
    /\ csv_handed = 0
    /\ dlog = <<>>

\* MainWindow.__init__
InitWindow == InitWindowPending(<<>>)

Init ==
    /\ InitConn
    /\ InitWindow
    /\ follow_map = TRUE
    /\ nuser = 0

\* the window after Conectar has opened the device and the reader has
\* queued a run of n lines before the first tick, follow mode having been
\* left on or switched off
InitQueued(queues) ==
    /\ arduino = Some(1)
    /\ handle_open = {1}
    /\ nconn = 1
    /\ serial_queue \in queues
    /\ serial_stop = FALSE
    /\ rpc = "loop"
    /\ rser = Some(1)
    /\ rlinha = <<>>
    /\ read_failed = FALSE
    /\ follow_map \in BOOLEAN
    /\ nuser = 0

InitFedConn(n) == InitQueued(FedQueues(n))

InitFed(n) == InitWindow /\ InitFedConn(n)

\* the same with any lines of the device queued, at most MotionLen of them
InitMotion == InitWindow /\ InitQueued(MixedQueues(MotionLen))

\* the same with PendFill presses of the reload button made while the first
\* load of the page was still in progress
PendingFilled == [i \in 1..PendFill |-> <<START_POS[1], START_POS[2], <<>>>>]
InitPend == InitWindowPending(PendingFilled) /\ InitFedConn(MaxTicks)

InitRun == InitFed(RunLen)
InitFill == InitFed(FillLen)

ReaderAlive == rpc \in {"loop", "read", "put"}

(***************************************************************************)
(* conectar (lines 544-571).  conectar_arduino returns a handle when a     *)
(* port can be opened (port_ok) and None otherwise; a reader thread is     *)
(* started only if none is alive.                                          *)
(***************************************************************************)
ConectarTo(port_ok) ==
    IF port_ok /\ nconn < MaxConn
    THEN /\ arduino' = Some(nconn + 1)
         /\ handle_open' = handle_open \cup {nconn + 1}
         /\ nconn' = nconn + 1
         /\ IF ~ReaderAlive
            THEN /\ serial_stop' = FALSE
                 /\ rpc' = "loop"
                 /\ rser' = Some(nconn + 1)
                 /\ rlinha' = <<>>
                 /\ read_failed' = FALSE
            ELSE UNCHANGED <<serial_stop, rpc, rser, rlinha, read_failed>>
    ELSE /\ arduino' = None
         /\ UNCHANGED <<handle_open, nconn, serial_stop, rpc, rser, rlinha, read_failed>>

\* the Conectar button (enabled only while disconnected, _update_buttons)
Conectar ==
    /\ dpc = "idle"
    /\ arduino = None
    /\ \E port_ok \in BOOLEAN : ConectarTo(port_ok)
    /\ UNCHANGED <<now, serial_queue, dpc, motion_vars, map_vars, follow_map,
                   save_route, simulating, sim_vars, csv_vars,
                   last_reconnect_attempt, tick_vars, nuser, dlog>>

(***************************************************************************)
(* SerialReader.run (lines 258-284), one action per step of the loop.      *)
(***************************************************************************)
\* the loop test and the is_open test
ReaderCheck ==
    /\ rpc = "loop"
    /\ rpc' = IF serial_stop \/ rser = None \/ rser[1] \notin handle_open
              THEN "dead" ELSE "read"
    /\ UNCHANGED <<now, arduino, handle_open, nconn, serial_queue, serial_stop,
                   rser, rlinha, dpc, motion_vars, map_vars, follow_map,
                   save_route, simulating, sim_vars, csv_vars,
                   last_reconnect_attempt, tick_vars, read_failed, nuser, dlog>>

\* self.ser.readline(): a line, nothing within the timeout, or an exception
\* (always an exception once the port is closed); the exception is caught
\* and the loop goes on.
ReaderRead ==
    /\ rpc = "read"
    /\ \/ /\ rser[1] \in handle_open
          /\ Len(serial_queue) < MaxQueue
          /\ \E l \in DeviceLines : rlinha' = l
          /\ rpc' = "put"
          /\ UNCHANGED read_failed
       \/ /\ rser[1] \in handle_open
          /\ rlinha' = <<>>
          /\ rpc' = "loop"
          /\ UNCHANGED read_failed
       \/ /\ rlinha' = <<>>
          /\ rpc' = "loop"
          /\ read_failed' = (read_failed \/ rser[1] \in handle_open)
    /\ UNCHANGED <<now, arduino, handle_open, nconn, serial_queue, serial_stop,
                   rser, dpc, motion_vars, map_vars, follow_map, save_route,
                   simulating, sim_vars, csv_vars, last_reconnect_attempt,
                   tick_vars, nuser, dlog>>

\* a reader that puts its line at the front of the queue
ReaderPutMutFront ==
    /\ rpc = "put"
    /\ serial_queue' = <<rlinha>> \o serial_queue
    /\ rlinha' = <<>>
    /\ rpc' = "loop"
    /\ UNCHANGED <<now, arduino, handle_open, nconn, serial_stop, rser, dpc,
                   motion_vars, map_vars, follow_map, save_route, simulating,
                   sim_vars, csv_vars, last_reconnect_attempt, tick_vars,
                   read_failed, nuser, dlog>>

\* self.q.put(linha)
ReaderPut ==
    /\ rpc = "put"
    /\ serial_queue' = Append(serial_queue, rlinha)
    /\ rlinha' = <<>>
    /\ rpc' = "loop"
    /\ UNCHANGED <<now, arduino, handle_open, nconn, serial_stop, rser, dpc,
                   motion_vars, map_vars, follow_map, save_route, simulating,
                   sim_vars, csv_vars, last_reconnect_attempt, tick_vars,
                   read_failed, nuser, dlog>>

(***************************************************************************)
(* desconectar (lines 573-600), one action per step: the reader thread     *)
(* runs while the GUI thread is inside it.                                 *)
(***************************************************************************)
\* self.serial_stop.set(), and whether join is called
DesconectarStop ==
    /\ dpc = "idle"
    /\ arduino # None
    /\ serial_stop' = TRUE
    /\ dpc' = IF ReaderAlive THEN "join" ELSE "close"
    /\ dlog' = <<"stop">>
    /\ UNCHANGED <<now, arduino, handle_open, nconn, serial_queue, rpc, rser,
                   rlinha, motion_vars, map_vars, follow_map, save_route,
                   simulating, sim_vars, csv_vars, last_reconnect_attempt,
                   tick_vars, read_failed, nuser>>

\* self.serial_thread.join(timeout=1.0): returns when the thread has ended,
\* or after the timeout with the thread still alive
DesconectarJoin ==
    /\ dpc = "join"
    /\ \/ /\ ~ReaderAlive
          /\ now' = now
          /\ dlog' = Append(dlog, "joined")
       \/ /\ ReaderAlive
          /\ now' = now + JOIN_TIMEOUT_S * Res
          /\ dlog' = Append(dlog, "timeout")
    /\ dpc' = "close"
    /\ UNCHANGED <<conn_vars, serial_queue, motion_vars, map_vars, follow_map,
                   save_route, simulating, sim_vars, csv_vars,
                   last_reconnect_attempt, tick_vars, read_failed, nuser>>

\* a variant of the close step that empties the queue first and leaves the
\* handle to the step after it
DesconectarCloseMutDrainFirst ==
    /\ dpc = "close"
    /\ serial_queue' = <<>>
    /\ dpc' = "drain"
    /\ dlog' = Append(dlog, "drain")
    /\ UNCHANGED <<now, conn_vars, motion_vars, map_vars, follow_map, save_route,
                   simulating, sim_vars, csv_vars, last_reconnect_attempt,
                   tick_vars, read_failed, nuser>>

\* self.arduino.close(); self.arduino = None
DesconectarClose ==
    /\ dpc = "close"
    /\ IF arduino # None
       THEN /\ handle_open' = handle_open \ {arduino[1]}
            /\ arduino' = None
       ELSE UNCHANGED <<handle_open, arduino>>
    /\ dpc' = "drain"
    /\ dlog' = Append(dlog, "close")
    /\ UNCHANGED <<now, nconn, serial_queue, serial_stop, rpc, rser, rlinha,
                   motion_vars, map_vars, follow_map, save_route, simulating,
                   sim_vars, csv_vars, last_reconnect_attempt, tick_vars,
                   read_failed, nuser>>

\* while not self.serial_queue.empty(): self.serial_queue.get_nowait()
DesconectarDrain ==
    /\ dpc = "drain"
    /\ serial_queue' = <<>>
    /\ dpc' = "idle"
    /\ dlog' = Append(dlog, "drain")
    /\ UNCHANGED <<now, conn_vars, motion_vars, map_vars, follow_map, save_route,
                   simulating, sim_vars, csv_vars, last_reconnect_attempt,
                   tick_vars, read_failed, nuser>>


(***************************************************************************)
(* CSV persistence: salvar_ponto_csv and _flush_csv_if_needed.             *)
(***************************************************************************)
CSV_HEADER == <<"timestamp_iso", "timestamp_unix", "lat", "lon", "speed_kmh">>

\* the row written for a buffered record (lat, lon, t, spd): (spd or 0)
CsvRow(rec) == <<rec[1], rec[2], rec[3], IF rec[4] = None THEN 0 ELSE rec[4][1]>>

\* salvar_ponto_csv (lines 104-115): the header goes first when the file
\* did not exist at line 107 (exists = FALSE); an I/O error (ok = FALSE) is
\* swallowed and no row is written.
salvar_ponto_csv(file, exists, rec, ok) ==
    IF ~ok THEN file
    ELSE (IF exists THEN file ELSE <<CSV_HEADER>>) \o <<CsvRow(rec)>>

\* a variant of the write loop that writes the newest record first
WriteAllMutReversed(file, exists, buf, ok) ==
    IF buf = <<>> \/ ~ok THEN file
    ELSE salvar_ponto_csv(file, exists, buf[Len(buf)], ok)
         \o [i \in 1..(Len(buf) - 1) |-> CsvRow(buf[Len(buf) - i])]

\* lines 807-808: salvar_ponto_csv for each record of the buffer, in order;
\* the first call writes the header when the file did not exist
WriteAll(file, exists, buf, ok) ==
    IF buf = <<>> \/ ~ok THEN file
    ELSE salvar_ponto_csv(file, exists, Head(buf), ok)
         \o [i \in 1..(Len(buf) - 1) |-> CsvRow(buf[i + 1])]

\* line 805: the two flush triggers
FlushDue(buf, now_ts) ==
    \/ (now_ts - csv_last_flush) >= CSV_FLUSH_INTERVAL_S * Res
    \/ Len(buf) >= CSV_BUFFER_MAX

\* the writes of a flush fail and the file did not exist: open("a") at
\* line 108 may have created it, empty, before the error (created), or not
CanCreateEmpty(flushing, wr_ok) == flushing /\ ~wr_ok /\ ~csv_exists

\* _flush_csv_if_needed (lines 802-814) on the buffer buf; the buffer is
\* cleared in the finally clause, whatever the writes did.
flush_csv_if_needed(buf, now_ts, wr_ok, created) ==
    IF buf # <<>> /\ FlushDue(buf, now_ts)
    THEN /\ csv_file' = WriteAll(csv_file, csv_exists, buf, wr_ok)
         /\ csv_exists' = (csv_exists \/ wr_ok \/ created)
         /\ csv_handed' = csv_handed + Len(buf)
         /\ csv_buffer' = <<>>
         /\ csv_last_flush' = now_ts
    ELSE /\ csv_buffer' = buf
         /\ UNCHANGED <<csv_file, csv_exists, csv_last_flush, csv_handed>>

(***************************************************************************)
(* The map: _should_refresh_map, _update_map_dynamic, _refresh_map.        *)
(***************************************************************************)
should_refresh_map(now_ts) ==
    (now_ts - last_map_update) >= MAP_REFRESH_MIN_S * Res

\* a queue of pending updates without the cap
QueuePendingMutNoCap(pend, item) == Append(pend, item)

\* _update_map_dynamic while the page is not ready (lines 301-310): the
\* update is queued, the oldest one being dropped when PENDING_MAX are queued
QueuePending(pend, item) ==
    Append(IF Len(pend) >= PENDING_MAX THEN Tail(pend) ELSE pend, item)

\* Line 706 evaluates self._moved_enough(lat, lon) once follow_map and
\* _should_refresh_map(now) are true.  MainWindow defines no _moved_enough
\* (nor does QMainWindow), so the attribute lookup raises AttributeError,
\* which tick's outer `except Exception` (line 737) catches.
MapGateRaises(follow, now_ts) == follow /\ should_refresh_map(now_ts)

Last2(q) == IF Len(q) > 2 THEN SubSeq(q, Len(q) - 1, Len(q)) ELSE q

\* _refresh_map(lat, lon) at time t.  js_ok: runJavaScript did not raise;
\* load_ok: webview.load did not raise.  While the page is not ready the
\* update is queued by _update_map_dynamic and the fallback reloads the page.
refresh_map(lat, lon, t, js_ok, load_ok) ==
    LET upd(how) == [t |-> t, pos |-> <<lat, lon>>, route |-> route, how |-> how] IN
    /\ pending_map_updates' =
          IF ~map_ready
          THEN QueuePending(pending_map_updates, <<lat, lon, route>>)
          ELSE pending_map_updates
    /\ IF map_ready /\ js_ok
       THEN /\ last_map_update' = t
            /\ last_map_pos' = <<lat, lon>>
            /\ map_log' = Last2(Append(map_log, upd("js")))
            /\ UNCHANGED page_loading
       ELSE IF load_ok
       THEN /\ page_loading' = TRUE
            /\ last_map_update' = t
            /\ last_map_pos' = <<lat, lon>>
            /\ map_log' = Last2(Append(map_log, upd("load")))
       ELSE UNCHANGED <<page_loading, last_map_update, last_map_pos, map_log>>
    /\ UNCHANGED <<map_ready, map_replay>>

(***************************************************************************)
(* tick (lines 640-739).                                                   *)
(***************************************************************************)
TickDts == {1, LongDt}

\* a variant of the movement test for which every reading is a movement
MovedMutAlways(lp, lat, lon) == TRUE

\* lines 680-693: the reading (lat, lon) counts as movement when it is the
\* first one or is more than 1.5 m from last_point
Moved(lp, lat, lon) ==
    \/ lp = None
    \/ 4 * haversine_m2(lp[1], lp[2], lat, lon)
          > MOVE_THRESHOLD_HALF_M * MOVE_THRESHOLD_HALF_M

\* a tick that takes the simulator's line whenever the simulation is on
UseSimMutAlways(linha0, sim) == sim

\* line 660: the simulator supplies the line of the tick
UseSim(linha0, sim) == linha0 = <<>> /\ sim

\* a speed for which the estimate comes first
SpeedUsedMutEstimateFirst(rdspd, lp, d2, t) ==
    IF lp # None THEN Some(EstKmh(d2, t - lp[3])) ELSE rdspd

\* lines 680-687: the speed of an accepted reading at time t, d2 being the
\* squared distance from last_point lp; the estimate is used only when the
\* line gave no speed
SpeedUsed(rdspd, lp, d2, t) ==
    IF lp # None /\ rdspd = None THEN Some(EstKmh(d2, t - lp[3])) ELSE rdspd

\* a route that keeps only the readings that counted as movement
RouteAppendMutOnlyMoved(rt, moved, pos) ==
    IF moved THEN AppendMax(rt, pos, ROUTE_MAX_POINTS) ELSE rt

\* line 699: the route after a reading at pos is accepted; the append is
\* outside the movement test of lines 689-693
RouteAppend(rt, moved, pos) == AppendMax(rt, pos, ROUTE_MAX_POINTS)

\* a reconnection test that does not wait
ShouldReconnectMutNoWait(ard, t, last, sim) == ard = None /\ ~sim

\* line 652: tick tries to reconnect at time t
ShouldReconnect(ard, t, last, sim) ==
    /\ ard = None
    /\ t - last > RECONNECT_MIN_S * Res
    /\ ~sim

\* one run of tick, now being dt units after the last step, dt drawn from
\* dts; at most maxn runs are explored
TickOf(dts, maxn) ==
    /\ dpc = "idle"
    /\ nticks < maxn
    /\ \E dt \in dts, port_ok \in BOOLEAN, wr_ok \in BOOLEAN, created \in BOOLEAN :
        LET t == now + dt
            got == arduino # None /\ serial_queue # <<>>
            linha0 == IF got THEN Head(serial_queue) ELSE <<>>
            reconnect == ShouldReconnect(arduino, t, last_reconnect_attempt, simulating)
            usesim == UseSim(linha0, simulating)
            ang == SimAdvance(sim_angle, t - sim_last_time)
            linha == IF usesim THEN SimLine(ang) ELSE linha0
            rd == ParseOf[linha]
            accepted == rd.lat # None /\ rd.lon # None
            lat == rd.lat[1]
            lon == rd.lon[1]
            d2 == haversine_m2(last_point[1], last_point[2], lat, lon)
            spd == IF accepted THEN SpeedUsed(rd.spd, last_point, d2, t) ELSE rd.spd
            moved == Moved(last_point, lat, lon)
            buf == IF accepted /\ save_route
                   THEN Append(csv_buffer, <<lat, lon, t, spd>>) ELSE csv_buffer
            raised == accepted /\ MapGateRaises(follow_map, t)
            lmt1 == IF accepted /\ moved THEN t ELSE last_movement_time
            lp1 == IF accepted THEN <<lat, lon, t>> ELSE last_point
        IN  /\ (~reconnect => port_ok)
            /\ (~(accepted /\ buf # <<>> /\ FlushDue(buf, t)) => wr_ok)
            /\ (created => CanCreateEmpty(accepted /\ buf # <<>> /\ FlushDue(buf, t), wr_ok))
            /\ now' = t
            /\ nticks' = nticks + 1
            /\ serial_queue' = IF got THEN Tail(serial_queue) ELSE serial_queue
            /\ IF reconnect
               THEN /\ last_reconnect_attempt' = t
                    /\ ConectarTo(port_ok)
               ELSE UNCHANGED <<last_reconnect_attempt, conn_vars, read_failed>>
            /\ IF usesim
               THEN sim_angle' = ang /\ sim_last_time' = t
               ELSE UNCHANGED sim_vars
            /\ last_movement_time' = lmt1
            /\ last_point' = lp1
            /\ route' = IF accepted THEN RouteAppend(route, moved, <<lat, lon>>)
                        ELSE route
            /\ csv_appended' = IF accepted /\ save_route THEN csv_appended + 1
                               ELSE csv_appended
            /\ IF accepted
               THEN flush_csv_if_needed(buf, t, wr_ok, created)
               ELSE UNCHANGED <<csv_buffer, csv_last_flush, csv_file, csv_exists,
                                csv_handed>>
            /\ speed_history' =
                  IF spd # None /\ ~raised
                  THEN AppendMax(speed_history, <<t - Epoch, spd[1]>>, SPEED_HISTORY_MAX)
                  ELSE speed_history
            /\ alert_label' = IF raised THEN alert_label
                              ELSE AlertLabel(Alerts(t, lmt1, lp1))
            /\ tk' = [line |-> linha, rd |-> rd, accepted |-> accepted, spd |-> spd,
                      raised |-> raised,
                      wr_fail |-> (accepted /\ buf # <<>> /\ FlushDue(buf, t) /\ ~wr_ok)]
            /\ UNCHANGED <<dpc, map_vars, follow_map, save_route, simulating, nuser, dlog>>

\* the timer's tick
Tick == TickOf(TickDts, MaxTicks)


(***************************************************************************)
(* The buttons and the page's loadFinished signal.                         *)
(***************************************************************************)
\* a backfill that counts the points from 1, the last one getting the time t
BackfillMutFromOne(rt, t) ==
    [i \in 1..Len(rt) |-> <<rt[i][1], rt[i][2], t - (Len(rt) - i) * Res, None>>]

\* the records toggle_save appends for the route: (lat, lon, t, None) with
\* t = now - (len(route) - idx) seconds
Backfill(rt, t) ==
    [i \in 1..Len(rt) |-> <<rt[i][1], rt[i][2], t - (Len(rt) - (i - 1)) * Res, None>>]

\* toggle_save (lines 603-613)
ToggleSave ==
    /\ dpc = "idle"
    /\ nuser < MaxUser
    /\ nuser' = nuser + 1
    /\ save_route' = ~save_route
    /\ IF ~save_route /\ route # <<>>
       THEN /\ csv_buffer' = csv_buffer \o Backfill(route, now)
            /\ csv_appended' = csv_appended + Len(route)
       ELSE UNCHANGED <<csv_buffer, csv_appended>>
    /\ UNCHANGED <<now, conn_vars, serial_queue, dpc, motion_vars, map_vars,
                   follow_map, simulating, sim_vars, csv_last_flush, csv_file,
                   csv_exists, csv_handed, last_reconnect_attempt, tick_vars,
                   read_failed, dlog>>

\* toggle_follow (lines 851-857); presses are explored while fewer than
\* maxp updates are pending
ToggleFollowOf(maxp) ==
    /\ dpc = "idle"
    /\ nuser < MaxUser
    /\ nuser' = nuser + 1
    /\ Len(pending_map_updates) < maxp
    /\ follow_map' = ~follow_map
    /\ IF ~follow_map /\ last_point # None
       THEN \E js_ok \in BOOLEAN, load_ok \in BOOLEAN :
              /\ (~map_ready => js_ok)
              /\ refresh_map(last_point[1], last_point[2], now, js_ok, load_ok)
       ELSE UNCHANGED map_vars
    /\ UNCHANGED <<now, conn_vars, serial_queue, dpc, motion_vars, save_route,
                   simulating, sim_vars, csv_vars, last_reconnect_attempt,
                   tick_vars, read_failed, dlog>>

ToggleFollow == ToggleFollowOf(MaxPending)

\* reload_map (lines 770-790).  gen_ok: gerar_mapa wrote mapa.html; js_ok:
\* runJavaScript did not raise; load_ok: webview.load did not raise.  The
\* update for START_POS is queued while the page is not ready, and the page
\* is loaded again unless the update could be made by JavaScript.
ReloadMap ==
    /\ dpc = "idle"
    /\ nuser < MaxUser
    /\ nuser' = nuser + 1
    /\ \E gen_ok \in BOOLEAN, js_ok \in BOOLEAN, load_ok \in BOOLEAN :
          /\ (~gen_ok => js_ok /\ load_ok)
          /\ (~map_ready => js_ok)
          /\ (map_ready /\ js_ok => load_ok)
          /\ pending_map_updates' =
                IF gen_ok /\ ~map_ready
                THEN QueuePending(pending_map_updates,
                                  <<START_POS[1], START_POS[2], route>>)
                ELSE pending_map_updates
          /\ page_loading' =
                IF gen_ok /\ ~(map_ready /\ js_ok) /\ load_ok THEN TRUE
                ELSE page_loading
    /\ UNCHANGED <<now, conn_vars, serial_queue, dpc, motion_vars, last_map_update,
                   last_map_pos, map_ready, map_log, map_replay, follow_map,
                   save_route, simulating, sim_vars, csv_vars,
                   last_reconnect_attempt, tick_vars, read_failed, dlog>>

\* toggle_simulation (lines 817-824)
ToggleSimulation ==
    /\ dpc = "idle"
    /\ nuser < MaxUser
    /\ nuser' = nuser + 1
    /\ simulating' = ~simulating
    /\ sim_last_time' = now
    /\ sim_angle' = IF ~simulating THEN 0 ELSE sim_angle
    /\ UNCHANGED <<now, conn_vars, serial_queue, dpc, motion_vars, map_vars,
                   follow_map, save_route, csv_vars, last_reconnect_attempt,
                   tick_vars, read_failed, dlog>>

\* a replay loop that does not put the failing update back
RequeueMutDropFailing(pend, nfail) ==
    IF nfail = 0 THEN <<>> ELSE SubSeq(pend, nfail + 1, Len(pend))

\* lines 919-930: what is left of the pending updates when the runJavaScript
\* of update number nfail raises (0: none does); the failing update is put
\* back at the front and the loop stops
Requeue(pend, nfail) ==
    IF nfail = 0 THEN <<>> ELSE SubSeq(pend, nfail, Len(pend))

\* _on_map_load_finished(ok) (lines 913-944).  With ok, the pending updates
\* are replayed in order; nfail is the position of the first one whose
\* runJavaScript raises (0: none), which is put back at the front.
MapLoadFinished ==
    /\ dpc = "idle"
    /\ page_loading
    /\ page_loading' = FALSE
    /\ \/ /\ map_ready' = TRUE
          /\ \E nfail \in 0..Len(pending_map_updates) :
               /\ pending_map_updates' = Requeue(pending_map_updates, nfail)
               /\ map_replay' =
                     [sent |-> SubSeq(pending_map_updates, 1,
                                      IF nfail = 0 THEN Len(pending_map_updates)
                                      ELSE nfail - 1),
                      failed |-> nfail # 0]
       \/ /\ map_ready' = FALSE
          /\ UNCHANGED <<pending_map_updates, map_replay>>
    /\ UNCHANGED <<now, conn_vars, serial_queue, dpc, motion_vars, last_map_update,
                   last_map_pos, map_log, follow_map, save_route, simulating,
                   sim_vars, csv_vars, last_reconnect_attempt, tick_vars,
                   read_failed, nuser, dlog>>

\* a final flush that is asked for at the closing time itself
CloseFlushTimeMutNow(t) == t

\* line 881: the time closeEvent passes to _flush_csv_if_needed
CloseFlushTime(t) == t + CSV_FLUSH_INTERVAL_S * Res

\* closeEvent (lines 871-901): the route is put in the buffer once more when
\* recording is on, the buffer is flushed with the time now + CSV_FLUSH_INTERVAL_S,
\* the reader is told to stop and waited for at most 1 s, and the handle is
\* closed (self.arduino keeps its value).  Nothing runs in the GUI thread
\* after it.
CloseEvent ==
    /\ dpc = "idle"
    /\ dpc' = "closed"
    /\ \E wr_ok \in BOOLEAN, created \in BOOLEAN :
          LET buf == IF save_route /\ route # <<>>
                     THEN csv_buffer \o Backfill(route, now) ELSE csv_buffer
              t == CloseFlushTime(now)
          IN  /\ (buf = <<>> => wr_ok)
              /\ (created => CanCreateEmpty(buf # <<>>, wr_ok))
              /\ flush_csv_if_needed(buf, t, wr_ok, created)
              /\ csv_appended' = csv_appended + (Len(buf) - Len(csv_buffer))
              /\ tk' = [tk EXCEPT !.wr_fail = ~wr_ok]
    /\ serial_stop' = TRUE
    /\ now' \in IF ReaderAlive THEN {now, now + JOIN_TIMEOUT_S * Res} ELSE {now}
    /\ handle_open' = IF arduino # None THEN handle_open \ {arduino[1]} ELSE handle_open
    /\ UNCHANGED <<arduino, nconn, serial_queue, rpc, rser, rlinha, motion_vars,
                   map_vars, follow_map, save_route, simulating, sim_vars,
                   last_reconnect_attempt, nticks, alert_label, read_failed,
                   nuser, dlog>>

Next ==
    \/ Tick
    \/ Conectar
    \/ ReaderCheck
    \/ ReaderRead
    \/ ReaderPut
    \/ DesconectarStop
    \/ DesconectarJoin
    \/ DesconectarClose
    \/ DesconectarDrain
    \/ ToggleSave
    \/ ToggleFollow
    \/ ToggleSimulation
    \/ MapLoadFinished
    \/ ReloadMap
    \/ CloseEvent

Spec == Init /\ [][Next]_vars


(***************************************************************************)
(* Specifications over parts of Next, for the properties that concern      *)
(* only those parts.                                                       *)
(***************************************************************************)
\* the tick fed by the reader thread (tick's own reconnection opens the port)
NextTick == Tick \/ ReaderCheck \/ ReaderRead \/ ReaderPut
SpecTick == Init /\ [][NextTick]_vars

\* the tick fed by the simulator, with route recording, and the window's close
NextCsv == Tick \/ ToggleSimulation \/ ToggleSave \/ CloseEvent
SpecCsv == Init /\ [][NextCsv]_vars

\* the tick fed by the reader thread, with map following and the page
NextMap == Tick \/ ReaderCheck \/ ReaderRead \/ ReaderPut \/ ToggleFollow \/ MapLoadFinished
SpecMap == Init /\ [][NextMap]_vars

\* connecting, the reader thread, disconnecting and the tick
NextConn ==
    \/ Tick \/ Conectar \/ ReaderCheck \/ ReaderRead \/ ReaderPut
    \/ DesconectarStop \/ DesconectarJoin \/ DesconectarClose \/ DesconectarDrain
SpecConn == Init /\ [][NextConn]_vars

\* the frame parser of tick (lines 663-679) on its own, applied to one input
\* line per step: well-formed readings with and without a speed, lines
\* without the LAT: prefix, lines without LON:, and lines with a field that
\* is not a number
ParseTriples == ((-MaxLat..MaxLat) \cup {2001}) \X (-MaxLon..MaxLon) \X (0..MaxSpd)
ParseInputs ==
    {Line3(v[1], v[2], v[3]) : v \in ParseTriples}
    \cup {Line2(v[1], v[2]) : v \in ParseTriples}
    \cup {LON_ \o Str(v[2]) \o COMMA \o LAT_ \o Str(v[1]) : v \in ParseTriples}
    \cup {LAT_ \o Str(v[1]) \o COMMA \o SPD_ \o Str(v[3]) : v \in ParseTriples}
    \cup {<<" ">> \o Line2(v[1], v[2]) : v \in ParseTriples}
    \cup BadLines

ParseStep ==
    /\ tk = NoTick
    /\ \E l \in ParseInputs :
          LET rd == ParseLine(l) IN
          tk' = [line |-> l, rd |-> rd,
                 accepted |-> (rd.lat # None /\ rd.lon # None),
                 spd |-> rd.spd, raised |-> FALSE, wr_fail |-> FALSE]
    /\ UNCHANGED <<now, conn_vars, serial_queue, dpc, motion_vars, map_vars,
                   follow_map, save_route, simulating, sim_vars, csv_vars,
                   last_reconnect_attempt, nticks, alert_label, read_failed,
                   nuser, dlog>>

NextParse == ParseStep
SpecParse == Init /\ [][NextParse]_vars

\* a long run: one tick per second, each consuming one queued line
TickRun == TickOf({Res}, RunLen)
NextRun == TickRun
SpecRun == InitRun /\ [][NextRun]_vars

\* a run that can fill the CSV buffer: one tick per second, each consuming
\* one queued line, and the save button, pressed once the route is long
TickFill == TickOf({Res}, FillLen)
ToggleSaveFill == nuser < FillPresses /\ Len(route) >= FillFrom /\ ToggleSave
\* presses of the follow and reload buttons while the page does not get
\* ready and PendFill updates are pending already
ToggleFollowPend == ToggleFollowOf(PENDING_MAX + 1)
NextPend == Tick \/ ToggleFollowPend \/ ReloadMap
SpecPend == InitPend /\ [][NextPend]_vars

\* page loads that finish while updates are pending, the device having
\* queued MaxTicks lines
InitReplay == InitFed(MaxTicks)
NextReplay == Tick \/ ToggleFollow \/ ReloadMap \/ MapLoadFinished
SpecReplay == InitReplay /\ [][NextReplay]_vars

\* ticks half a second, five seconds and LongDt apart while the device is
\* connected and disconnected by hand and the simulation is switched
TickReconn == TickOf({1, RECONNECT_MIN_S * Res, LongDt}, ReconnTicks)
NextReconn ==
    \/ TickReconn \/ ToggleSimulation \/ Conectar
    \/ DesconectarStop \/ DesconectarJoin \/ DesconectarClose \/ DesconectarDrain
SpecReconn == Init /\ [][NextReconn]_vars

\* ticks on device lines and on simulated ones, the simulation being
\* switched on and off
NextSim == Tick \/ ReaderCheck \/ ReaderRead \/ ReaderPut \/ ToggleSimulation
SpecSim == Init /\ [][NextSim]_vars

\* ticks on any lines of the device, recording being switched on and off
TickMotion == TickOf(TickDts, MotionLen)
NextMotion == TickMotion \/ ToggleSave
SpecMotion == InitMotion /\ [][NextMotion]_vars

NextFill == TickFill \/ ToggleSaveFill \/ CloseEvent
SpecFill == InitFill /\ [][NextFill]_vars

\* the two buttons of the connection and the reader thread, which is all
\* that runs while the GUI thread is inside conectar or desconectar
NextDisc ==
    \/ Conectar \/ ReaderCheck \/ ReaderRead \/ ReaderPut
    \/ DesconectarStop \/ DesconectarJoin \/ DesconectarClose \/ DesconectarDrain
SpecDisc == Init /\ [][NextDisc]_vars

(***************************************************************************)
(* Properties.                                                             *)
(***************************************************************************)
\* a step of tick
TickStep == nticks' = nticks + 1

\* C1: after any tick, the alerts displayed are the alerts computed from that
\* tick's now, last_movement_time and last_point.
C1_AlertsPublishedEveryTick ==
    [][TickStep =>
         alert_label'.alerts = Alerts(now', last_movement_time', last_point')]_vars

\* C2: whatever step of a tick fails (the line does not parse, the map step
\* raises, a CSV write fails), the later steps of that tick still run: the
\* speed sample of the tick is appended and the alerts are evaluated.
C2_FailureKeepsLaterSteps ==
    [][(/\ TickStep
        /\ \/ tk'.raised
           \/ tk'.wr_fail
           \/ (tk'.line # <<>> /\ ~tk'.accepted))
       => /\ (tk'.spd # None =>
                speed_history' = AppendMax(speed_history,
                                           <<now' - Epoch, tk'.spd[1]>>,
                                           SPEED_HISTORY_MAX))
          /\ alert_label' = AlertLabel(Alerts(now', last_movement_time', last_point'))]_vars

\* C3: on every tick, a buffer that is non-empty when CSV_FLUSH_INTERVAL_S has
\* elapsed since the last flush is flushed during that tick.
C3_FlushCheckedEveryTick ==
    [][(/\ TickStep
        /\ csv_buffer # <<>>
        /\ now' - csv_last_flush >= CSV_FLUSH_INTERVAL_S * Res)
       => (csv_buffer' = <<>> /\ csv_last_flush' = now')]_vars

\* the data rows of the CSV file (all rows but the header)
DataRows ==
    IF csv_file # <<>> /\ csv_file[1] = CSV_HEADER THEN Len(csv_file) - 1
    ELSE Len(csv_file)

\* C4: no record leaves the buffer without having been written: every record
\* ever buffered is still in the buffer or is a row of the file.
C4_NoRecordLeavesUnwritten == csv_appended = Len(csv_buffer) + DataRows

\* a line the parser starts on (prefix and LON: present) in which a field is
\* missing or the LAT, LON or SPD value is not a number
C5_ParseFailure(l) ==
    /\ l # <<>>
    /\ StartsWith(l, LAT_)
    /\ Contains(l, LON_)
    /\ LET parts == Split(l, ",") IN
         \/ ~FieldOk(parts, 1)
         \/ ~FieldOk(parts, 2)
         \/ (Len(parts) > 2 /\ Contains(parts[3], SPD_) /\ ~FieldOk(parts, 3))

\* C5: a tick whose line has any parse failure rejects the whole line and
\* leaves the vehicle state as it was.
C5_ParseFailureRejectsLine ==
    [][(TickStep /\ C5_ParseFailure(tk'.line))
       => (~tk'.accepted /\ UNCHANGED <<motion_vars, csv_buffer>>)]_vars

\* C6: a line LAT:a,LON:b,SPD:c with numeric a, b, c is parsed to exactly
\* (a, b, c), and a line that does not start with LAT: or does not contain
\* LON: gives no reading.
C6_ParserExact ==
    /\ \A v \in ParseTriples :
          tk.line = Line3(v[1], v[2], v[3])
          => /\ tk.rd = [lat |-> Some(v[1]), lon |-> Some(v[2]), spd |-> Some(v[3])]
             /\ tk.accepted
    /\ (tk.line # <<>> /\ (~StartsWith(tk.line, LAT_) \/ ~Contains(tk.line, LON_)))
       => /\ tk.rd = [lat |-> None, lon |-> None, spd |-> None]
          /\ ~tk.accepted

\* the parser has read the line LAT:-2,LON:3,SPD:9
C6_Witness ==
    /\ tk.line = Line3(-2, 3, 9)
    /\ tk.rd = [lat |-> Some(-2), lon |-> Some(3), spd |-> Some(9)]
    /\ tk.accepted

DiscOrders ==
    { <<"stop", "joined", "close", "drain">>,
      <<"stop", "timeout", "close", "drain">>,
      <<"stop", "close", "drain">> }

\* C7: disconnecting signals the producer to stop, waits for it for at most
\* 1 s and goes on whether or not it ended, then releases the device handle,
\* and only then empties the queue.
C7_StopJoinCloseDrain ==
    [][/\ (dpc = "idle" /\ dpc' # "idle") => (serial_stop' /\ dlog' = <<"stop">>)
       /\ (dpc = "join" /\ dpc' # "join")
          => (now' - now <= JOIN_TIMEOUT_S * Res /\ dpc' = "close")
       /\ (dpc = "drain" /\ dpc' # "drain")
          => (arduino = None /\ serial_queue' = <<>>)
       /\ (dpc # "idle" /\ dpc' = "idle")
          => (dlog' \in DiscOrders /\ arduino' = None /\ serial_stop')]_vars

\* a disconnection has completed whose wait for the reader timed out
C7_Witness ==
    /\ dpc = "idle"
    /\ dlog = <<"stop", "timeout", "close", "drain">>
    /\ arduino = None
    /\ ReaderAlive

\* C7 as stated: the queue is emptied before the device handle is released.
C7_DrainBeforeClose ==
    (dpc = "idle" /\ dlog # <<>>)
    => \E i, j \in DOMAIN dlog : i < j /\ dlog[i] = "drain" /\ dlog[j] = "close"

\* C8: after a read on the device has failed, the producer has left its loop
\* and the engine is no longer connected: the reader is never found reading
\* again for a handle the engine still holds.
C8_ReadFailureDisconnects ==
    ~(read_failed /\ rpc = "read" /\ arduino # None /\ arduino = rser)

\* the reading a tick accepted is at least MAP_MIN_MOVE_M from last_map_pos
C9_MovedEnough ==
    \/ last_map_pos = None
    \/ haversine_m2(last_map_pos[1], last_map_pos[2], last_point'[1], last_point'[2])
          >= MAP_MIN_MOVE_M * MAP_MIN_MOVE_M

\* C9: an accepting tick with follow mode on whose time gate and displacement
\* gate pass emits a map update carrying the position and the route, and sets
\* last_map_update and last_map_pos.
C9_PassingTickEmits ==
    [][(/\ TickStep
        /\ tk'.accepted
        /\ follow_map
        /\ now' - last_map_update >= MAP_REFRESH_MIN_S * Res
        /\ C9_MovedEnough)
       => /\ last_map_update' = now'
          /\ last_map_pos' = <<last_point'[1], last_point'[2]>>
          /\ map_log' # map_log
          /\ map_log'[Len(map_log')].pos = <<last_point'[1], last_point'[2]>>
          /\ map_log'[Len(map_log')].route = route']_vars

\* C10: two successive map updates are at least MAP_REFRESH_MIN_S apart, and
\* an update is at least MAP_MIN_MOVE_M from the one emitted before it.
C10_UpdatesThrottled ==
    Len(map_log) = 2
    => /\ map_log[2].t - map_log[1].t >= MAP_REFRESH_MIN_S * Res
       /\ haversine_m2(map_log[1].pos[1], map_log[1].pos[2],
                       map_log[2].pos[1], map_log[2].pos[2])
             >= MAP_MIN_MOVE_M * MAP_MIN_MOVE_M

\* all the readings accepted so far were one per tick and at one position
SamePositionFed == Len(route) = nticks /\ \A i \in 1..Len(route) : route[i] = route[1]

StoppedShown == \E i \in 1..Len(alert_label.alerts) : alert_label.alerts[i][1] = "Parado"

\* C11: with the same position fed on consecutive ticks one second apart, the
\* stopped-too-long alert is displayed after tick 31 and not after tick 29.
C11_StoppedAtTick31 ==
    /\ (nticks = 31 /\ SamePositionFed) => StoppedShown
    /\ (nticks = 29 /\ SamePositionFed) => ~StoppedShown

\* C12: last_movement_time never decreases, and it changes only in a tick
\* that accepts the very first reading or a reading more than 1.5 m from the
\* previous last_point; every other step leaves it unchanged.
C12_MovementTimeAdvances ==
    [][/\ last_movement_time' >= last_movement_time
       /\ last_movement_time' # last_movement_time
          => /\ TickStep
             /\ tk'.accepted
             /\ \/ last_point = None
                \/ 4 * haversine_m2(last_point[1], last_point[2],
                                    last_point'[1], last_point'[2])
                      > MOVE_THRESHOLD_HALF_M * MOVE_THRESHOLD_HALF_M
             /\ last_movement_time' = now']_vars

\* a second reading, 1.5 m or less from the first, has been accepted and has
\* left last_movement_time at the time of the first
C12_Witness ==
    /\ Len(route) = 2
    /\ tk.accepted
    /\ last_point[3] = now
    /\ last_movement_time < last_point[3]
    /\ last_movement_time > Epoch
    /\ route[1] # route[2]

\* the label published by the step shows the outside-safe-area alert
OutsideShown ==
    \E i \in 1..Len(alert_label'.alerts) : alert_label'.alerts[i][1] = "Fora"

\* C13: a tick with the last known position at the geofence centre does not
\* report the outside-safe-area alert, and a tick with the last known
\* position farther than GEOFENCE_RADIUS_M from the centre reports it.
C13_GeofenceAlertReported ==
    [][(TickStep /\ last_point' # None)
       => /\ <<last_point'[1], last_point'[2]>> = GEOFENCE_CENTER => ~OutsideShown
          /\ haversine_m2(last_point'[1], last_point'[2],
                          GEOFENCE_CENTER[1], GEOFENCE_CENTER[2])
                > GEOFENCE_RADIUS_M * GEOFENCE_RADIUS_M
             => OutsideShown]_vars

\* C14: no operation completes with CSV_BUFFER_MAX or more records in the
\* buffer: a buffer that reaches CSV_BUFFER_MAX in a tick or in toggle_save
\* is flushed by that operation, whatever the time since the last flush.
C14_FullBufferFlushed == Len(csv_buffer) < CSV_BUFFER_MAX

\* the step flushed the buffer
FlushStep ==
    \/ csv_file' # csv_file
    \/ csv_last_flush' # csv_last_flush
    \/ Len(csv_buffer') < Len(csv_buffer)

\* what a flush writes in the step: the buffer, with the record of the tick
\* or the route that closeEvent puts in it
FlushedRecords ==
    IF TickStep
    THEN IF tk'.accepted /\ save_route
         THEN Append(csv_buffer, <<last_point'[1], last_point'[2], now', tk'.spd>>)
         ELSE csv_buffer
    ELSE IF save_route /\ route # <<>>
         THEN csv_buffer \o Backfill(route, now) ELSE csv_buffer

RowsOf(buf) == [i \in 1..Len(buf) |-> CsvRow(buf[i])]

\* C15: without write failures, a flush appends every buffered record to the
\* file once, in the order buffered, and leaves the buffer empty; a flush made
\* by a tick sets the last-flush time to the tick's time, the flush made when
\* the window closes sets it CSV_FLUSH_INTERVAL_S past the closing time.
\* Between flushes the file is unchanged and the buffer only grows at its end.
C15_FlushedOnceInOrder ==
    [][/\ (FlushStep /\ ~tk'.wr_fail)
          => /\ TickStep \/ dpc' = "closed"
             /\ csv_file' = (IF csv_exists THEN csv_file ELSE <<CSV_HEADER>>)
                            \o RowsOf(FlushedRecords)
             /\ csv_buffer' = <<>>
             /\ csv_last_flush' = IF TickStep THEN now'
                                  ELSE now + CSV_FLUSH_INTERVAL_S * Res
       /\ ~FlushStep
          => /\ Len(csv_buffer') >= Len(csv_buffer)
             /\ SubSeq(csv_buffer', 1, Len(csv_buffer)) = csv_buffer]_vars

\* C15 as stated: every flush without write failure writes the buffered
\* records in order, empties the buffer and sets the last-flush time to the
\* time of the tick that flushes.
C15_FlushTimeIsTickTime ==
    [][(FlushStep /\ ~tk'.wr_fail)
       => /\ TickStep
          /\ csv_file' = (IF csv_exists THEN csv_file ELSE <<CSV_HEADER>>)
                         \o RowsOf(FlushedRecords)
          /\ csv_buffer' = <<>>
          /\ csv_last_flush' = now']_vars

\* a flush without failure has written the whole route and one reading more
C15_Witness ==
    /\ tk.accepted
    /\ ~tk.wr_fail
    /\ csv_buffer = <<>>
    /\ csv_last_flush = now
    /\ csv_appended > CSV_BUFFER_MAX
    /\ DataRows = csv_appended

\* the device sent the walk: reading k is at WalkStep * k metres north, and
\* the readings taken so far are the first nticks of it
WalkFed ==
    /\ nticks >= 1
    /\ tk.line = WalkLine(nticks)
    /\ serial_queue # <<>> => serial_queue[1] = WalkLine(nticks + 1)

\* C16: the route never holds more than ROUTE_MAX_POINTS positions and the
\* speed history never more than SPEED_HISTORY_MAX samples; after any number
\* of accepted readings the route holds the latest ones, at most
\* ROUTE_MAX_POINTS of them, oldest first.
C16_HistoriesBounded ==
    /\ Len(route) <= ROUTE_MAX_POINTS
    /\ Len(speed_history) <= SPEED_HISTORY_MAX
    /\ WalkFed =>
          /\ Len(route) = IF nticks <= ROUTE_MAX_POINTS THEN nticks
                          ELSE ROUTE_MAX_POINTS
          /\ \A j \in 1..Len(route) :
                route[j] = <<WalkStep * (nticks - Len(route) + j), DevLon>>

C16_Witness ==
    /\ WalkFed
    /\ nticks = RunLen
    /\ Len(route) = ROUTE_MAX_POINTS
    /\ route[1] = <<WalkStep * (RunLen - ROUTE_MAX_POINTS + 1), DevLon>>
    /\ route[ROUTE_MAX_POINTS] = <<WalkStep * RunLen, DevLon>>
    /\ Len(speed_history) = SPEED_HISTORY_MAX
    /\ speed_history[1][1] = (RunLen - SPEED_HISTORY_MAX + 1) * Res

\* C17: while the map page is not ready the pending map updates never number
\* more than PENDING_MAX; an update queued when PENDING_MAX are pending drops
\* the oldest one and is appended at the end.
C17_PendingCapped ==
    /\ [](~map_ready => Len(pending_map_updates) <= PENDING_MAX)
    /\ [][(~map_ready /\ pending_map_updates' # pending_map_updates)
           => /\ pending_map_updates' # <<>>
              /\ pending_map_updates' =
                    Append(IF Len(pending_map_updates) = PENDING_MAX
                           THEN Tail(pending_map_updates) ELSE pending_map_updates,
                           pending_map_updates'[Len(pending_map_updates')])]_vars

\* three updates were queued on top of PendFill, each after a reading had
\* been accepted
C17_Witness ==
    /\ ~map_ready
    /\ Len(pending_map_updates) = PENDING_MAX
    /\ pending_map_updates[PendFill][3] # <<>>
    /\ pending_map_updates[PendFill - 1][3] = <<>>

\* a step in which the page reports that its load has succeeded
LoadSucceeds == page_loading /\ ~page_loading' /\ map_ready'

\* C18: when a load of the map page completes successfully the pending
\* updates are replayed in the order they were queued; the queue is empty
\* afterwards unless a replay fails, and then the failing update and all the
\* later ones stay queued, in order.
C18_ReplayInOrder ==
    [][LoadSucceeds
       => /\ map_replay'.sent \o pending_map_updates' = pending_map_updates
          /\ ~map_replay'.failed => pending_map_updates' = <<>>
          /\ map_replay'.failed => pending_map_updates' # <<>>]_vars

\* the first of two different pending updates was replayed and the second
\* one failed and is still queued
C18_Witness ==
    /\ map_ready
    /\ map_replay.failed
    /\ Len(map_replay.sent) = 1
    /\ Len(pending_map_updates) = 1
    /\ pending_map_updates[1] # map_replay.sent[1]

\* a step in which tick attempts a reconnection
ReconnectAttempt == last_reconnect_attempt' # last_reconnect_attempt

\* C19: only a tick attempts an automatic reconnection, and only when the
\* device is disconnected and the simulation is off; an attempt is made more
\* than RECONNECT_MIN_S after the one before it.
C19_ReconnectSpaced ==
    [][ReconnectAttempt
       => /\ TickStep
          /\ arduino = None
          /\ ~simulating
          /\ last_reconnect_attempt' = now'
          /\ now' - last_reconnect_attempt > RECONNECT_MIN_S * Res]_vars

\* with the simulation never switched on and no connection ever made, the
\* first tick made an attempt and a later tick has just made another, which
\* failed
C19_Witness ==
    /\ nticks >= 2
    /\ nuser = 0
    /\ nconn = 0
    /\ arduino = None
    /\ last_reconnect_attempt = now

\* C20: a tick takes at most one line from the serial queue, the one at its
\* head, and takes none when the queue is empty, without waiting for one;
\* while the device is connected every other step leaves the queue as it is
\* or puts one line at its end, so that lines are taken in the order they
\* were put, none is lost and none is taken twice.
C20_QueueFifo ==
    /\ [](dpc = "idle" /\ nticks < MaxTicks /\ serial_queue = <<>> => ENABLED Tick)
    /\ [][/\ TickStep =>
              IF arduino # None /\ serial_queue # <<>>
              THEN /\ serial_queue' = Tail(serial_queue)
                   /\ tk'.line = Head(serial_queue)
              ELSE serial_queue' = serial_queue
          /\ (~TickStep /\ arduino # None /\ serial_queue' # serial_queue) =>
              /\ serial_queue' # <<>>
              /\ serial_queue' =
                    Append(serial_queue, serial_queue'[Len(serial_queue')])]_vars

\* the reader had put two different lines and a tick has taken the first
C20_Witness ==
    /\ arduino # None
    /\ tk.line # <<>>
    /\ serial_queue # <<>>
    /\ serial_queue[1] # tk.line
    /\ rpc = "loop"

\* the tick about to run gets a line from the device
GotDeviceLine == arduino # None /\ serial_queue # <<>>

\* C21: a tick processes a line of the simulator only when the simulation is
\* on and it got no line from the device; when it got a device line it
\* processes that line and leaves sim_angle and sim_last_time as they are.
C21_SimulatorOnlyWithoutDeviceLine ==
    [][TickStep =>
         /\ GotDeviceLine => tk'.line = Head(serial_queue) /\ UNCHANGED sim_vars
         /\ (~GotDeviceLine /\ simulating) =>
               /\ tk'.line = SimLine(sim_angle')
               /\ sim_last_time' = now'
         /\ (~GotDeviceLine /\ ~simulating) => tk'.line = <<>> /\ UNCHANGED sim_vars]_vars

\* the simulation is on and the last tick, run after it was switched on,
\* processed a device line and did not advance the simulator
C21_Witness ==
    /\ simulating
    /\ arduino # None
    /\ nticks >= 1
    /\ sim_last_time < now
    /\ tk.line \in DeviceLines

\* the speed of the reading rd accepted at time t when last_point was lp:
\* the one of the line, else the estimate distance/dt*3.6, else none
ExpectedSpeed(rd, lp, t) ==
    IF rd.spd # None THEN rd.spd
    ELSE IF lp # None
    THEN Some(EstKmh(haversine_m2(lp[1], lp[2], rd.lat[1], rd.lon[1]), t - lp[3]))
    ELSE None

\* C22: for an accepted reading the speed the tick uses, in the record it
\* buffers and in the sample it appends, is the SPD of the line when the
\* line has one, otherwise the speed derived from the previous position when
\* there is one, and otherwise absent, no speed sample being appended then.
C22_SpeedOfReading ==
    [][(TickStep /\ tk'.accepted) =>
         LET e == ExpectedSpeed(tk'.rd, last_point, now') IN
         /\ tk'.spd = e
         /\ (save_route /\ csv_buffer' # <<>>) => csv_buffer'[Len(csv_buffer')][4] = e
         /\ speed_history' # speed_history =>
               /\ e # None
               /\ speed_history'[Len(speed_history')] = <<now' - Epoch, e[1]>>
         /\ e = None => speed_history' = speed_history]_vars

\* a line without SPD was accepted after an earlier fix, follow mode being
\* off, and the derived speed, which is not zero, is the last sample
C22_Witness ==
    /\ tk.accepted
    /\ tk.rd.spd = None
    /\ tk.spd # None
    /\ tk.spd[1] > 0
    /\ speed_history # <<>>
    /\ speed_history[Len(speed_history)] = <<now - Epoch, tk.spd[1]>>

\* C23: every tick that accepts a reading sets last_point to the position
\* of the reading and the time of the tick, and appends the position to the
\* route once, whether or not the reading counted as movement.
C23_AcceptedReadingRecorded ==
    [][(TickStep /\ tk'.accepted) =>
         LET pos == <<tk'.rd.lat[1], tk'.rd.lon[1]>> IN
         /\ last_point' = <<pos[1], pos[2], now'>>
         /\ route' = Append(IF Len(route) >= ROUTE_MAX_POINTS THEN Tail(route)
                            ELSE route, pos)]_vars

\* the last tick accepted a reading at a new position that did not count as
\* movement
C23_Witness ==
    /\ tk.accepted
    /\ last_point # None
    /\ last_point[3] = now
    /\ last_movement_time < now
    /\ Len(route) >= 2
    /\ route[Len(route)] = <<last_point[1], last_point[2]>>
    /\ route[Len(route) - 1] # route[Len(route)]

\* the lines with a bad prefix, without LON:, or with a latitude or a
\* longitude that is not a number
UnparseableLines ==
    { l \in MotionLines :
        \/ ~StartsWith(l, LAT_)
        \/ ~Contains(l, LON_)
        \/ l = BadLatLine
        \/ l = LAT_ \o Str(4) \o COMMA \o LON_ \o BAD }

\* C24: a tick whose line cannot be parsed leaves last_point, the route,
\* last_movement_time, the speed history and the CSV buffer unchanged, and
\* shows the alerts computed at its time from that unchanged state.
C24_UnparseableLineIgnored ==
    [][(TickStep /\ tk'.line \in UnparseableLines) =>
         /\ UNCHANGED <<last_point, route, last_movement_time, speed_history,
                        csv_buffer>>
         /\ alert_label' = AlertLabel(Alerts(now', last_movement_time, last_point))]_vars

\* a tick on a line that cannot be parsed, after a fix outside the geofence
\* had been buffered for recording; the alert is shown
C24_Witness ==
    /\ nticks >= 2
    /\ tk.line \in UnparseableLines
    /\ last_point # None
    /\ last_point[3] < now
    /\ csv_buffer # <<>>
    /\ alert_label.alerts = << <<"Fora">> >>

\* the list the step shows has an alert of the kind k
Listed(k) == \E i \in 1..Len(alert_label'.alerts) : alert_label'.alerts[i][1] = k

\* C25: the list of alerts of a tick has the stopped alert exactly when
\* now - last_movement_time > STOP_ALERT_SECONDS, and the outside-safe-area
\* alert exactly when a position is known and lies beyond the geofence
\* radius; when both hold, both are listed, the stopped alert first, in the
\* colour of the geofence violation.
C25_AlertRulesIndependent ==
    [][TickStep =>
         LET stopped == now' - last_movement_time' > STOP_ALERT_SECONDS * Res
             outside == /\ last_point' # None
                        /\ ~dentro_da_geofence(last_point'[1], last_point'[2])
         IN  /\ Listed("Parado") <=> stopped
             /\ Listed("Fora") <=> outside
             /\ (stopped /\ outside) =>
                   /\ Len(alert_label'.alerts) = 2
                   /\ alert_label'.alerts[1][1] = "Parado"
                   /\ alert_label'.alerts[2][1] = "Fora"
                   /\ alert_label'.color = "#ff6b6b"]_vars

\* a press of the recording button
SaveToggled == save_route' # save_route

\* C26: switching recording on with n points in the route appends n
\* records to the CSV buffer, in route order, without speed and with the
\* times now - (n - idx) seconds, idx counting from 0, which increase along
\* the route and are all earlier than now; switching it off appends nothing.
C26_BackfillOnEnable ==
    [][SaveToggled =>
         LET n == Len(route)
             m == Len(csv_buffer)
         IN  IF save_route'
             THEN /\ Len(csv_buffer') = m + n
                  /\ SubSeq(csv_buffer', 1, m) = csv_buffer
                  /\ \A i \in 1..n :
                        /\ csv_buffer'[m + i] =
                              <<route[i][1], route[i][2], now - (n - (i - 1)) * Res, None>>
                        /\ csv_buffer'[m + i][3] < now
                        /\ i < n => csv_buffer'[m + i][3] < csv_buffer'[m + i + 1][3]
             ELSE csv_buffer' = csv_buffer]_vars

\* recording has just been switched on with three points in the route, not
\* all at one position, and the buffer holds their three records
C26_Witness ==
    /\ save_route
    /\ Len(route) = 3
    /\ route[1] # route[3]
    /\ Len(csv_buffer) = 3
    /\ \A i \in 1..3 :
          csv_buffer[i] = <<route[i][1], route[i][2], now - (4 - i) * Res, None>>

\* C27: the header row is in the session CSV file once, as its first line,
\* before any record, however many flushes have been made.
C27_HeaderOnceFirst ==
    csv_file # <<>> =>
        /\ csv_file[1] = CSV_HEADER
        /\ \A i \in 2..Len(csv_file) : csv_file[i] # CSV_HEADER

\* C28: whenever the device is connected, outside desconectar and before the
\* window closes, a reader thread is alive, reads from the handle of the
\* current connection, and the stop flag is clear.
C28_ConnectedHasReader ==
    (arduino # None /\ dpc = "idle") =>
        /\ ReaderAlive
        /\ rser = arduino
        /\ ~serial_stop

\* C29: once desconectar has returned, and until a conectar succeeds, the
\* serial queue is empty, so that no line read on the connection that was
\* closed is left for a tick to process after a reconnection.
C29_QueueEmptyWhileDisconnected ==
    (dpc = "idle" /\ arduino = None) => serial_queue = <<>>

\* the record rows of the CSV file that are at the position pos
RowsAt(pos) ==
    {i \in DOMAIN csv_file :
        Len(csv_file[i]) = 4 /\ <<csv_file[i][1], csv_file[i][2]>> = pos}

\* C30: a position of the route, accepted by a tick, is written to the
\* session CSV file at most once: the file never has more rows at a position
\* than the route has points there.
C30_PositionWrittenAtMostOnce ==
    \A pos \in {<<csv_file[i][1], csv_file[i][2]>> :
                  i \in {j \in DOMAIN csv_file : Len(csv_file[j]) = 4}} :
        Cardinality(RowsAt(pos)) <= Cardinality({k \in DOMAIN route : route[k] = pos})

\* C31: closeEvent flushes all that is buffered: the step of closeEvent
\* passes every record of the buffer, the route it has just put in it
\* included, to the file writer and leaves the buffer empty, whatever the
\* size of the buffer and the time since the last flush; once the window is
\* closed every record ever buffered has been passed to the writer.
C31_CloseFlushesAll ==
    /\ [](dpc = "closed" => csv_buffer = <<>> /\ csv_handed = csv_appended)
    /\ [][(dpc = "idle" /\ dpc' = "closed") =>
             /\ csv_buffer' = <<>>
             /\ csv_handed' - csv_handed =
                   Len(csv_buffer) + (IF save_route THEN Len(route) ELSE 0)
             /\ ~tk'.wr_fail =>
                   csv_file' = (IF csv_exists \/ FlushedRecords = <<>> THEN csv_file
                                ELSE <<CSV_HEADER>>) \o RowsOf(FlushedRecords)]_vars

\* the window has been closed after more than CSV_BUFFER_MAX records were
\* buffered in the session; the final flush was made, all the records were
\* passed to the writer and all are rows of the file
C31_Witness ==
    /\ dpc = "closed"
    /\ ~tk.wr_fail
    /\ tk.accepted
    /\ csv_buffer = <<>>
    /\ csv_last_flush > now
    /\ csv_handed = csv_appended
    /\ DataRows = csv_appended
    /\ csv_appended > CSV_BUFFER_MAX
    /\ csv_appended < 2 * CSV_BUFFER_MAX

\* the step executes a map update on the page with runJavaScript
UpdateExecuted ==
    /\ map_log' # map_log
    /\ map_log'[Len(map_log')].how = "js"

\* C32: a map update is executed on the page only when the load of the page
\* started last has completed successfully; while a load is in progress
\* updates are queued and not executed.
C32_NoUpdateWhileLoading ==
    [][UpdateExecuted
       => /\ map_ready
          /\ ~page_loading
          /\ pending_map_updates' = pending_map_updates]_vars

=============================================================================
